---------------------------- MODULE Spec2Model ----------------------------
(***************************************************************************)
(* A model of the IHDR and cHRM chunk decoders of png-codec                *)
(* (src/src/chunks/chunk_IHDR.ts, src/src/chunks/chunk_cHRM.ts) together   *)
(* with the warning policy they call into (assert.ts).                     *)
(*                                                                         *)
(* The state is one decode context (strictMode, warnings) plus a record of *)
(* the last decoder call: the byte view and chunk record it was given and  *)
(* what it returned or threw.  A DataView is a sequence of bytes; byte     *)
(* offset k of the view is element k + 1 of the sequence.                  *)
(*                                                                         *)
(* TLC's integers are 32-bit signed, so the sample values of the unsigned  *)
(* 32-bit fields stay below 2^31.                                          *)
(***************************************************************************)
EXTENDS Integers, Sequences, FiniteSets, TLC

VARIABLES
    strictMode,      \* options?.strictMode of the current decode
    warnings,        \* decodedPng.warnings of the current decode
    dataView,        \* the byte view handed to the last decoder call
    chunk,           \* the chunk record handed to the last decoder call
    fields,          \* history: the field values the payload was encoded from
    outcome,         \* what the last decoder call did: returned a value or threw
    warningsBefore,  \* history: decodedPng.warnings as the last call found it
    calls            \* number of decoder calls made in the current decode

vars == <<strictMode, warnings, dataView, chunk, fields, outcome, warningsBefore, calls>>

(***************************************************************************)
(* Bounds and sample inputs.                                               *)
(***************************************************************************)
MaxCalls == 2

Offsets == {8, 21}
\* width, height, colorType: 0x01020304 and 0x7FFFFFFF tell the byte order apart
Dimensions ==
    { [width |-> 1, height |-> 256, colorType |-> 2],
      [width |-> 16909060, height |-> 2147483647, colorType |-> 3],
      [width |-> 2147483647, height |-> 1, colorType |-> 9] }
BitDepths == {1, 3, 16}
CompressionMethods == {0, 1}
FilterMethods == {0, 1}
InterlaceMethods == {0, 1, 2}
HeaderLengths == {12, 13, 14}
ChromaticityLengths == {31, 32, 33}

\* raw whitePoint.x, whitePoint.y, red.x, red.y, green.x, green.y, blue.x, blue.y
ChromaticityRaws ==
    { <<31270, 32900, 64000, 33000, 30000, 60000, 15000, 6000>>,
      <<0, 100000, 100001, 250000, 2147483647, 16909060, 1, 99999>> }

(***************************************************************************)
(* The byte view: the writer's side of the format.                         *)
(***************************************************************************)
\* a chunk is a 4-byte length, a 4-byte type, the data and a 4-byte crc;
\* chunk.offset is the offset of the length
ChunkPartByteLength_Length == 4
ChunkPartByteLength_Type == 4

\* the four bytes of an unsigned 32-bit integer, most significant first
U32Bytes(n) ==
    << n \div 16777216, (n \div 65536) % 256, (n \div 256) % 256, n % 256 >>

RECURSIVE Filler(_)
Filler(n) == IF n = 0 THEN <<>> ELSE Append(Filler(n - 1), 170)

RECURSIVE Flatten(_)
Flatten(ss) == IF ss = <<>> THEN <<>> ELSE Head(ss) \o Flatten(Tail(ss))

TypeBytes(type) ==
    IF type = "IHDR" THEN <<73, 72, 68, 82>> ELSE <<99, 72, 82, 77>>

\* the 13 bytes of an IHDR payload
EncodeHeader(f) ==
    U32Bytes(f.width) \o U32Bytes(f.height)
        \o <<f.bitDepth, f.colorType, f.compressionMethod, f.filterMethod, f.interlaceMethod>>

\* the 32 bytes of a cHRM payload
EncodeChromaticity(raw) == Flatten([i \in 1..8 |-> U32Bytes(raw[i])])

\* a payload cut or padded to the length the chunk declares
Resize(payload, len) ==
    [i \in 1..len |-> IF i <= Len(payload) THEN payload[i] ELSE 204]

\* a byte view holding one chunk at the given offset: length, type, data, crc
BuildDataView(type, offset, payload) ==
    Filler(offset) \o U32Bytes(Len(payload)) \o TypeBytes(type) \o payload
        \o Filler(4)

(***************************************************************************)
(* DataView reads.                                                         *)
(***************************************************************************)
getUint8(dv, byteOffset) == dv[byteOffset + 1]

getUint32(dv, byteOffset) ==
    dv[byteOffset + 1] * 16777216 + dv[byteOffset + 2] * 65536
        + dv[byteOffset + 3] * 256 + dv[byteOffset + 4]

(***************************************************************************)
(* assert.ts: errors and the warning policy.  A call either throws or      *)
(* returns with the (possibly extended) warnings array.                    *)
(***************************************************************************)
ChunkError(ch, message) == [chunk |-> ch, message |-> message]

Ok(w) == [status |-> "ok", warnings |-> w]
Thrown(error, w) == [status |-> "thrown", error |-> error, warnings |-> w]
Returned(value, w) == [status |-> "returned", value |-> value, warnings |-> w]

handleWarning(warning, w, strict) ==
    IF strict THEN Thrown(warning, w) ELSE Ok(Append(w, warning))

assertChunkDataLengthEquals(ch, expected, w, strict) ==
    IF ch.dataLength # expected
    THEN Thrown(ChunkError(ch, <<"Invalid data length", ch.dataLength, expected>>), w)
    ELSE Ok(w)

assertChunkCompressionMethod(ch, compressionMethod, w, strict) ==
    IF compressionMethod # 0
    THEN handleWarning(ChunkError(ch, <<"Compression method", compressionMethod>>), w, strict)
    ELSE Ok(w)

(***************************************************************************)
(* chunk_IHDR.ts                                                           *)
(***************************************************************************)
\* variant: a range test in place of the five legal values
isValidBitDepth_Range(bitDepth) == bitDepth >= 1 /\ bitDepth <= 16

isValidBitDepth(bitDepth) ==
    \/ bitDepth = 1
    \/ bitDepth = 2
    \/ bitDepth = 4
    \/ bitDepth = 8
    \/ bitDepth = 16

\* variant: an off-by-one range test
isValidInterlaceMethod_Range(interlaceMethod) == interlaceMethod >= 0 /\ interlaceMethod <= 2

isValidInterlaceMethod(interlaceMethod) ==
    \/ interlaceMethod = 0
    \/ interlaceMethod = 1

\* variant: the reads start right after the length, at the chunk type
readHeaderFields_AtType(dv, ch) ==
    LET offset == ch.offset + ChunkPartByteLength_Length
    IN  [ width             |-> getUint32(dv, offset),
          height            |-> getUint32(dv, offset + 4),
          bitDepth          |-> getUint8(dv, offset + 8),
          colorType         |-> getUint8(dv, offset + 9),
          compressionMethod |-> getUint8(dv, offset + 10),
          filterMethod      |-> getUint8(dv, offset + 11),
          interlaceMethod   |-> getUint8(dv, offset + 12) ]

\* lines 22-29: the sequential reads
readHeaderFields(dv, ch) ==
    LET offset == ch.offset + ChunkPartByteLength_Length + ChunkPartByteLength_Type
    IN  [ width             |-> getUint32(dv, offset),
          height            |-> getUint32(dv, offset + 4),
          bitDepth          |-> getUint8(dv, offset + 8),
          colorType         |-> getUint8(dv, offset + 9),
          compressionMethod |-> getUint8(dv, offset + 10),
          filterMethod      |-> getUint8(dv, offset + 11),
          interlaceMethod   |-> getUint8(dv, offset + 12) ]

\* lines 31-33
checkBitDepth(ch, bitDepth, w) ==
    IF ~isValidBitDepth(bitDepth)
    THEN Thrown(ChunkError(ch, <<"Bit depth", bitDepth>>), w)
    ELSE Ok(w)

\* variant: the filter method is thrown like a hard violation
checkFilterMethod_Hard(ch, filterMethod, w, strict) ==
    IF filterMethod # 0
    THEN Thrown(ChunkError(ch, <<"Filter method", filterMethod>>), w)
    ELSE Ok(w)

\* lines 39-41
checkFilterMethod(ch, filterMethod, w, strict) ==
    IF filterMethod # 0
    THEN handleWarning(ChunkError(ch, <<"Filter method", filterMethod>>), w, strict)
    ELSE Ok(w)

\* variant: an invalid interlace method is only acted on in strict mode
checkInterlaceMethod_StrictOnly(ch, interlaceMethod, w, strict) ==
    IF ~isValidInterlaceMethod(interlaceMethod) /\ strict
    THEN Thrown(ChunkError(ch, <<"Interlace method", interlaceMethod>>), w)
    ELSE Ok(w)

\* lines 42-44
checkInterlaceMethod(ch, interlaceMethod, w, strict) ==
    IF ~isValidInterlaceMethod(interlaceMethod)
    THEN handleWarning(ChunkError(ch, <<"Interlace method", interlaceMethod>>), w, strict)
    ELSE Ok(w)

\* variant: the bit depth is checked after the compression method
parseChunk_IHDR_LateBitDepth(dv, ch, w, strict) ==
    LET r1 == assertChunkDataLengthEquals(ch, 13, w, strict)
        f  == readHeaderFields(dv, ch)
        r2 == assertChunkCompressionMethod(ch, f.compressionMethod, r1.warnings, strict)
        r3 == checkBitDepth(ch, f.bitDepth, r2.warnings)
        r4 == checkFilterMethod(ch, f.filterMethod, r3.warnings, strict)
        r5 == checkInterlaceMethod(ch, f.interlaceMethod, r4.warnings, strict)
    IN  IF r1.status = "thrown" THEN r1
        ELSE IF r2.status = "thrown" THEN r2
        ELSE IF r3.status = "thrown" THEN r3
        ELSE IF r4.status = "thrown" THEN r4
        ELSE IF r5.status = "thrown" THEN r5
        ELSE Returned([ width           |-> f.width,
                        height          |-> f.height,
                        bitDepth        |-> f.bitDepth,
                        colorType       |-> f.colorType,
                        interlaceMethod |-> f.interlaceMethod ],
                      r5.warnings)

\* variant: the interlace method is checked before the filter method
parseChunk_IHDR_InterlaceFirst(dv, ch, w, strict) ==
    LET r1 == assertChunkDataLengthEquals(ch, 13, w, strict)
        f  == readHeaderFields(dv, ch)
        r2 == checkBitDepth(ch, f.bitDepth, r1.warnings)
        r3 == assertChunkCompressionMethod(ch, f.compressionMethod, r2.warnings, strict)
        r4 == checkInterlaceMethod(ch, f.interlaceMethod, r3.warnings, strict)
        r5 == checkFilterMethod(ch, f.filterMethod, r4.warnings, strict)
    IN  IF r1.status = "thrown" THEN r1
        ELSE IF r2.status = "thrown" THEN r2
        ELSE IF r3.status = "thrown" THEN r3
        ELSE IF r4.status = "thrown" THEN r4
        ELSE IF r5.status = "thrown" THEN r5
        ELSE Returned([ width           |-> f.width,
                        height          |-> f.height,
                        bitDepth        |-> f.bitDepth,
                        colorType       |-> f.colorType,
                        interlaceMethod |-> f.interlaceMethod ],
                      r5.warnings)

\* lines 19-53.  The warnings array is mutated in place by the calls; here each
\* step hands the array it leaves to the next one.
parseChunk_IHDR(dv, ch, w, strict) ==
    LET r1 == assertChunkDataLengthEquals(ch, 13, w, strict)
        f  == readHeaderFields(dv, ch)
        r2 == checkBitDepth(ch, f.bitDepth, r1.warnings)
        r3 == assertChunkCompressionMethod(ch, f.compressionMethod, r2.warnings, strict)
        r4 == checkFilterMethod(ch, f.filterMethod, r3.warnings, strict)
        r5 == checkInterlaceMethod(ch, f.interlaceMethod, r4.warnings, strict)
    IN  IF r1.status = "thrown" THEN r1
        ELSE IF r2.status = "thrown" THEN r2
        ELSE IF r3.status = "thrown" THEN r3
        ELSE IF r4.status = "thrown" THEN r4
        ELSE IF r5.status = "thrown" THEN r5
        ELSE Returned([ width           |-> f.width,
                        height          |-> f.height,
                        bitDepth        |-> f.bitDepth,
                        colorType       |-> f.colorType,
                        interlaceMethod |-> f.interlaceMethod ],
                      r5.warnings)

(***************************************************************************)
(* chunk_cHRM.ts                                                           *)
(***************************************************************************)
\* raw / 100000 as a decimal fraction: whole + frac / 100000
Fraction(raw) == [whole |-> raw \div 100000, frac |-> raw % 100000]

\* variant: the offset is not advanced past red, so green is read from red's bytes
readChromaticity_NoAdvance(dv, ch) ==
    LET offset == ch.offset + ChunkPartByteLength_Length + ChunkPartByteLength_Type
    IN  [ whitePoint |-> [ x |-> Fraction(getUint32(dv, offset)),
                           y |-> Fraction(getUint32(dv, offset + 4)) ],
          red        |-> [ x |-> Fraction(getUint32(dv, offset + 8)),
                           y |-> Fraction(getUint32(dv, offset + 8 + 4)) ],
          green      |-> [ x |-> Fraction(getUint32(dv, offset + 8)),
                           y |-> Fraction(getUint32(dv, offset + 8 + 4)) ],
          blue       |-> [ x |-> Fraction(getUint32(dv, offset + 16)),
                           y |-> Fraction(getUint32(dv, offset + 16 + 4)) ] ]

\* lines 27-46: the reads and the scaling
readChromaticity(dv, ch) ==
    LET offset == ch.offset + ChunkPartByteLength_Length + ChunkPartByteLength_Type
    IN  [ whitePoint |-> [ x |-> Fraction(getUint32(dv, offset)),
                           y |-> Fraction(getUint32(dv, offset + 4)) ],
          red        |-> [ x |-> Fraction(getUint32(dv, offset + 8)),
                           y |-> Fraction(getUint32(dv, offset + 8 + 4)) ],
          green      |-> [ x |-> Fraction(getUint32(dv, offset + 16)),
                           y |-> Fraction(getUint32(dv, offset + 16 + 4)) ],
          blue       |-> [ x |-> Fraction(getUint32(dv, offset + 24)),
                           y |-> Fraction(getUint32(dv, offset + 24 + 4)) ] ]

\* variant: the length is not asserted
parseChunk_cHRM_NoLengthCheck(dv, ch, w) ==
    LET c == readChromaticity(dv, ch)
    IN  Returned([ type       |-> "cHRM",
                   whitePoint |-> c.whitePoint,
                   red        |-> c.red,
                   green      |-> c.green,
                   blue       |-> c.blue ],
                 w)

\* lines 15-55.  The length assertion is called without warnings and strictMode.
parseChunk_cHRM(dv, ch, w) ==
    LET r1 == assertChunkDataLengthEquals(ch, 32, w, FALSE)
        c  == readChromaticity(dv, ch)
    IN  IF r1.status = "thrown" THEN r1
        ELSE Returned([ type       |-> "cHRM",
                        whitePoint |-> c.whitePoint,
                        red        |-> c.red,
                        green      |-> c.green,
                        blue       |-> c.blue ],
                      r1.warnings)

(***************************************************************************)
(* The state machine.                                                      *)
(***************************************************************************)
HeaderFields ==
    { [ width |-> d.width, height |-> d.height, bitDepth |-> b, colorType |-> d.colorType,
        compressionMethod |-> c, filterMethod |-> fm, interlaceMethod |-> i ] :
      d \in Dimensions, b \in BitDepths, c \in CompressionMethods,
      fm \in FilterMethods, i \in InterlaceMethods }

\* chunks of a wrong length are sampled with one choice of dimensions
HeaderInputs ==
    { in \in [f : HeaderFields, len : HeaderLengths, offset : Offsets] :
        in.len = 13 \/ in.f.width = 1 }

NoChunk == [type |-> "none", offset |-> 0, dataLength |-> 0]

Init ==
    /\ strictMode \in BOOLEAN
    /\ warnings = <<>>
    /\ dataView = <<>>
    /\ chunk = NoChunk
    /\ fields = <<>>
    /\ outcome = [status |-> "none"]
    /\ warningsBefore = <<>>
    /\ calls = 0

\* the driver starts an independent decode with a fresh context
StartDecode ==
    /\ calls > 0
    /\ strictMode' \in BOOLEAN
    /\ warnings' = <<>>
    /\ dataView' = <<>>
    /\ chunk' = NoChunk
    /\ fields' = <<>>
    /\ outcome' = [status |-> "none"]
    /\ warningsBefore' = <<>>
    /\ calls' = 0

\* a decode goes on until a decoder throws
CanCall == calls < MaxCalls /\ outcome.status # "thrown"

Call(dv, ch, f, r) ==
    /\ dataView' = dv
    /\ chunk' = ch
    /\ fields' = f
    /\ warningsBefore' = warnings
    /\ warnings' = r.warnings
    /\ outcome' = IF r.status = "thrown"
                  THEN [status |-> "thrown", error |-> r.error]
                  ELSE [status |-> "returned", value |-> r.value]
    /\ calls' = calls + 1
    /\ UNCHANGED strictMode

DecodeHeader ==
    /\ CanCall
    /\ \E in \in HeaderInputs :
          LET payload == Resize(EncodeHeader(in.f), in.len)
              dv == BuildDataView("IHDR", in.offset, payload)
              ch == [type |-> "IHDR", offset |-> in.offset, dataLength |-> in.len]
          IN  Call(dv, ch, in.f, parseChunk_IHDR(dv, ch, warnings, strictMode))

DecodeChromaticity ==
    /\ CanCall
    /\ \E raw \in ChromaticityRaws, len \in ChromaticityLengths, offset \in Offsets :
          LET payload == Resize(EncodeChromaticity(raw), len)
              dv == BuildDataView("cHRM", offset, payload)
              ch == [type |-> "cHRM", offset |-> offset, dataLength |-> len]
          IN  Call(dv, ch, raw, parseChunk_cHRM(dv, ch, warnings))

Next == DecodeHeader \/ DecodeChromaticity \/ StartDecode

Spec == Init /\ [][Next]_vars

(***************************************************************************)
(* Vocabulary of the properties.                                           *)
(***************************************************************************)
HeaderCall == chunk.type = "IHDR"
ChromaticityCall == chunk.type = "cHRM"
Failed == outcome.status = "thrown"
Succeeded == outcome.status = "returned"

ValidBitDepths == {1, 2, 4, 8, 16}
ValidInterlaceMethods == {0, 1}

\* the diagnostics of the five header checks, in validation order
LengthDiag(ch, expected) ==
    [chunk |-> ch, message |-> <<"Invalid data length", ch.dataLength, expected>>]
BitDepthDiag(ch, f) == [chunk |-> ch, message |-> <<"Bit depth", f.bitDepth>>]
CompressionDiag(ch, f) ==
    [chunk |-> ch, message |-> <<"Compression method", f.compressionMethod>>]
FilterDiag(ch, f) == [chunk |-> ch, message |-> <<"Filter method", f.filterMethod>>]
InterlaceDiag(ch, f) ==
    [chunk |-> ch, message |-> <<"Interlace method", f.interlaceMethod>>]

HardMessages == {"Invalid data length", "Bit depth"}
SoftMessages == {"Compression method", "Filter method", "Interlace method"}

\* one diagnostic per violated soft check, in the order compression, filter, interlace
SoftDiags(ch, f) ==
    (IF f.compressionMethod # 0 THEN <<CompressionDiag(ch, f)>> ELSE <<>>)
        \o (IF f.filterMethod # 0 THEN <<FilterDiag(ch, f)>> ELSE <<>>)
        \o (IF f.interlaceMethod \notin ValidInterlaceMethods
            THEN <<InterlaceDiag(ch, f)>> ELSE <<>>)

\* the warnings the last call found are a prefix of the warnings it left
AppendOnly ==
    /\ Len(warningsBefore) <= Len(warnings)
    /\ SubSeq(warnings, 1, Len(warningsBefore)) = warningsBefore

\* what the last call appended
Appended == SubSeq(warnings, Len(warningsBefore) + 1, Len(warnings))

HeaderOf(f) ==
    [ width |-> f.width, height |-> f.height, bitDepth |-> f.bitDepth,
      colorType |-> f.colorType, interlaceMethod |-> f.interlaceMethod ]

(***************************************************************************)
(* C1.  A 13-byte header payload with bitDepth in {1,2,4,8,16},            *)
(* compressionMethod = 0, filterMethod = 0 and interlaceMethod in {0,1}    *)
(* decodes, in either mode and for every width, height and colorType, to   *)
(* exactly the encoded width, height, bitDepth, colorType and              *)
(* interlaceMethod, and the warnings are left as they were.                *)
(***************************************************************************)
C1_ValidHeaderRoundTrip ==
    ( /\ HeaderCall
      /\ chunk.dataLength = 13
      /\ fields.bitDepth \in ValidBitDepths
      /\ fields.compressionMethod = 0
      /\ fields.filterMethod = 0
      /\ fields.interlaceMethod \in ValidInterlaceMethods )
    => /\ Succeeded
       /\ outcome.value = HeaderOf(fields)
       /\ warnings = warningsBefore

C1_Witness ==
    /\ HeaderCall
    /\ chunk.dataLength = 13
    /\ chunk.offset = 21
    /\ ~strictMode
    /\ fields.bitDepth = 16
    /\ fields.compressionMethod = 0
    /\ fields.filterMethod = 0
    /\ fields.interlaceMethod = 1
    /\ Succeeded
    /\ outcome.value.width = 16909060
    /\ outcome.value.height = 2147483647
    /\ warningsBefore # <<>>

(***************************************************************************)
(* C2.  A header chunk whose length is not 13 and a chromaticity chunk     *)
(* whose length is not 32 always fail fatally, in strict and in lenient    *)
(* mode, and nothing is appended to the warnings.                          *)
(***************************************************************************)
C2_LengthMismatchAlwaysFatal ==
    ( \/ HeaderCall /\ chunk.dataLength # 13
      \/ ChromaticityCall /\ chunk.dataLength # 32 )
    => /\ Failed
       /\ outcome.error.message[1] = "Invalid data length"
       /\ warnings = warningsBefore

C2_Witness ==
    /\ ~strictMode
    /\ ChromaticityCall
    /\ chunk.dataLength = 33
    /\ Failed
    /\ warningsBefore # <<>>
    /\ warnings = warningsBefore

(***************************************************************************)
(* C3.  A 13-byte header payload whose bitDepth is not in {1,2,4,8,16}     *)
(* always fails fatally, in both modes and whatever the other fields, and  *)
(* no header metadata is returned.                                         *)
(***************************************************************************)
C3_InvalidBitDepthAlwaysFatal ==
    ( /\ HeaderCall
      /\ chunk.dataLength = 13
      /\ fields.bitDepth \notin ValidBitDepths )
    => /\ Failed
       /\ outcome.error = BitDepthDiag(chunk, fields)

C3_Witness ==
    /\ HeaderCall
    /\ chunk.dataLength = 13
    /\ ~strictMode
    /\ fields.bitDepth = 3
    /\ fields.compressionMethod = 0
    /\ fields.filterMethod = 0
    /\ fields.interlaceMethod = 0
    /\ Failed

(***************************************************************************)
(* C4.  As written: for a header payload with filterMethod # 0, lenient    *)
(* mode succeeds with exactly one diagnostic appended, strict mode fails   *)
(* fatally with the warnings still empty.                                  *)
(***************************************************************************)
C4_Original ==
    (HeaderCall /\ fields.filterMethod # 0)
    => IF strictMode
       THEN Failed /\ warnings = <<>>
       ELSE Succeeded /\ AppendOnly /\ Len(Appended) = 1

(***************************************************************************)
(* C4, amended.  For a header payload with filterMethod # 0: in strict     *)
(* mode the call fails fatally and the warnings remain empty; in lenient   *)
(* mode, when the payload is 13 bytes long and its bitDepth is valid, the  *)
(* call succeeds and appends exactly one diagnostic for the filter method, *)
(* which is the only diagnostic appended when compressionMethod = 0 and    *)
(* interlaceMethod is in {0,1}.                                            *)
(***************************************************************************)
C4_FilterMethodSoft ==
    (HeaderCall /\ fields.filterMethod # 0)
    => /\ strictMode => Failed /\ warnings = <<>>
       /\ ( /\ ~strictMode
            /\ chunk.dataLength = 13
            /\ fields.bitDepth \in ValidBitDepths )
          => /\ Succeeded
             /\ AppendOnly
             /\ Cardinality({i \in 1..Len(Appended) :
                                Appended[i] = FilterDiag(chunk, fields)}) = 1
             /\ ( /\ fields.compressionMethod = 0
                  /\ fields.interlaceMethod \in ValidInterlaceMethods )
                => Len(Appended) = 1

C4_Witness ==
    /\ HeaderCall
    /\ ~strictMode
    /\ chunk.dataLength = 13
    /\ fields.bitDepth = 1
    /\ fields.compressionMethod = 0
    /\ fields.filterMethod = 1
    /\ fields.interlaceMethod = 0
    /\ Succeeded
    /\ warnings = Append(warningsBefore, FilterDiag(chunk, fields))

(***************************************************************************)
(* C5.  A 32-byte chromaticity payload decodes to whitePoint.x,            *)
(* whitePoint.y, red.x, red.y, green.x, green.y, blue.x, blue.y equal to   *)
(* its eight big-endian unsigned 32-bit integers, in that order, each      *)
(* divided by 100000, with no clamping: raw values above 100000 come out   *)
(* above 1.  The raw values (31270,32900), (64000,33000), (30000,60000),   *)
(* (15000,6000) come out as 0.3127, 0.329, 0.64, 0.33, 0.3, 0.6, 0.15,     *)
(* 0.06.  A coordinate v stands for v.whole + v.frac / 100000.             *)
(***************************************************************************)
IsRawOver100000(v, raw) ==
    /\ v.frac \in 0..99999
    /\ v.whole * 100000 + v.frac = raw

Coordinates(v) ==
    << v.whitePoint.x, v.whitePoint.y, v.red.x, v.red.y,
       v.green.x, v.green.y, v.blue.x, v.blue.y >>

C5_ChromaticityScaled ==
    (ChromaticityCall /\ chunk.dataLength = 32)
    => /\ Succeeded
       /\ warnings = warningsBefore
       /\ outcome.value.type = "cHRM"
       /\ \A i \in 1..8 :
             /\ IsRawOver100000(Coordinates(outcome.value)[i], fields[i])
             /\ fields[i] > 100000 =>
                   \/ Coordinates(outcome.value)[i].whole > 1
                   \/ /\ Coordinates(outcome.value)[i].whole = 1
                      /\ Coordinates(outcome.value)[i].frac > 0
       /\ fields = <<31270, 32900, 64000, 33000, 30000, 60000, 15000, 6000>>
          => /\ outcome.value.whitePoint = [ x |-> [whole |-> 0, frac |-> 31270],
                                             y |-> [whole |-> 0, frac |-> 32900] ]
             /\ outcome.value.red = [ x |-> [whole |-> 0, frac |-> 64000],
                                      y |-> [whole |-> 0, frac |-> 33000] ]
             /\ outcome.value.green = [ x |-> [whole |-> 0, frac |-> 30000],
                                        y |-> [whole |-> 0, frac |-> 60000] ]
             /\ outcome.value.blue = [ x |-> [whole |-> 0, frac |-> 15000],
                                       y |-> [whole |-> 0, frac |-> 6000] ]

C5_Witness ==
    /\ ChromaticityCall
    /\ chunk.dataLength = 32
    /\ chunk.offset = 21
    /\ fields[5] = 2147483647
    /\ Succeeded
    /\ outcome.value.green.x = [whole |-> 21474, frac |-> 83647]
    /\ outcome.value.red.y = [whole |-> 2, frac |-> 50000]

(***************************************************************************)
(* C6.  As written: every header returned by a successful call, in either  *)
(* mode, has bitDepth in {1,2,4,8,16} and interlaceMethod in {0,1}.        *)
(***************************************************************************)
C6_Original ==
    (HeaderCall /\ Succeeded)
    => /\ outcome.value.bitDepth \in ValidBitDepths
       /\ outcome.value.interlaceMethod \in ValidInterlaceMethods

(***************************************************************************)
(* C6, amended.  Every header returned by a successful call has bitDepth   *)
(* in {1,2,4,8,16}; its interlaceMethod is in {0,1} in strict mode, and in *)
(* lenient mode it is in {0,1} or it is the raw value read and the last    *)
(* diagnostic the call appended reports it.                                *)
(***************************************************************************)
C6_ReturnedHeaderRange ==
    (HeaderCall /\ Succeeded)
    => /\ outcome.value.bitDepth \in ValidBitDepths
       /\ \/ outcome.value.interlaceMethod \in ValidInterlaceMethods
          \/ /\ ~strictMode
             /\ outcome.value.interlaceMethod = fields.interlaceMethod
             /\ Len(warnings) > Len(warningsBefore)
             /\ warnings[Len(warnings)] = InterlaceDiag(chunk, fields)

C6_Witness ==
    /\ HeaderCall
    /\ Succeeded
    /\ ~strictMode
    /\ outcome.value.bitDepth = 16
    /\ outcome.value.interlaceMethod = 2
    /\ warnings[Len(warnings)] = InterlaceDiag(chunk, fields)

(***************************************************************************)
(* C7.  A diagnostic is thrown or appended to the warnings, never both,    *)
(* and its class and the mode decide which: a length mismatch and an       *)
(* invalid bit depth are always thrown; a compressionMethod, filterMethod  *)
(* or interlaceMethod violation is thrown exactly when strictMode is true  *)
(* and appended exactly when it is false.  After a call that fails fatally *)
(* the warnings are what they were before the call.                        *)
(***************************************************************************)
C7_DiagnosticFate ==
    (HeaderCall \/ ChromaticityCall)
    => /\ AppendOnly
       /\ Failed => /\ warnings = warningsBefore
                    /\ \/ outcome.error.message[1] \in HardMessages
                       \/ outcome.error.message[1] \in SoftMessages /\ strictMode
       /\ \A i \in 1..Len(Appended) :
             /\ Appended[i].message[1] \in SoftMessages
             /\ ~strictMode
             /\ Failed => Appended[i] # outcome.error
       /\ (HeaderCall /\ chunk.dataLength # 13)
          => Failed /\ outcome.error = LengthDiag(chunk, 13)
       /\ (ChromaticityCall /\ chunk.dataLength # 32)
          => Failed /\ outcome.error = LengthDiag(chunk, 32)
       /\ (HeaderCall /\ chunk.dataLength = 13 /\ fields.bitDepth \notin ValidBitDepths)
          => Failed /\ outcome.error = BitDepthDiag(chunk, fields)
       /\ ( /\ HeaderCall
            /\ chunk.dataLength = 13
            /\ fields.bitDepth \in ValidBitDepths
            /\ SoftDiags(chunk, fields) # <<>> )
          => IF strictMode
             THEN /\ Failed
                  /\ \E i \in 1..Len(SoftDiags(chunk, fields)) :
                        outcome.error = SoftDiags(chunk, fields)[i]
                  /\ Appended = <<>>
             ELSE /\ Succeeded
                  /\ Appended = SoftDiags(chunk, fields)

C7_Witness ==
    /\ HeaderCall
    /\ strictMode
    /\ chunk.dataLength = 13
    /\ fields.bitDepth = 16
    /\ fields.compressionMethod = 0
    /\ fields.filterMethod = 0
    /\ fields.interlaceMethod = 2
    /\ Failed
    /\ outcome.error = InterlaceDiag(chunk, fields)
    /\ warnings = <<>>

(***************************************************************************)
(* C9.  In lenient mode a 13-byte header payload with a valid bitDepth     *)
(* decodes successfully and appends exactly one diagnostic per violated    *)
(* soft check, between 0 and 3 of them, in the order compression, filter,  *)
(* interlace, each carrying the offending chunk record; the warnings that  *)
(* were there stay, in their order, after any decoder call; the returned   *)
(* interlaceMethod is the raw value read.                                  *)
(***************************************************************************)
C9_LenientDiagnostics ==
    /\ (HeaderCall \/ ChromaticityCall) => AppendOnly
    /\ ( /\ HeaderCall
         /\ ~strictMode
         /\ chunk.dataLength = 13
         /\ fields.bitDepth \in ValidBitDepths )
       => /\ Succeeded
          /\ warnings = warningsBefore \o SoftDiags(chunk, fields)
          /\ Len(warnings) - Len(warningsBefore) \in 0..3
          /\ \A i \in Len(warningsBefore) + 1..Len(warnings) : warnings[i].chunk = chunk
          /\ outcome.value.interlaceMethod = fields.interlaceMethod

C9_Witness ==
    /\ HeaderCall
    /\ ~strictMode
    /\ chunk.dataLength = 13
    /\ chunk.offset = 21
    /\ fields.bitDepth = 1
    /\ Succeeded
    /\ Len(warningsBefore) = 2
    /\ warningsBefore[1].chunk.offset = 8
    /\ warnings = warningsBefore \o << CompressionDiag(chunk, fields),
                                      FilterDiag(chunk, fields),
                                      InterlaceDiag(chunk, fields) >>
    /\ outcome.value.interlaceMethod = 2

(***************************************************************************)
(* C10.  In strict mode a header payload with one or more violations fails *)
(* with exactly one fatal diagnostic, that of the first violated check in  *)
(* the sequence length = 13, bitDepth in {1,2,4,8,16}, compressionMethod = *)
(* 0, filterMethod = 0, interlaceMethod in {0,1}; no later check adds a    *)
(* diagnostic and no header metadata is returned.                          *)
(***************************************************************************)
FirstViolation(ch, f) ==
    IF ch.dataLength # 13 THEN <<LengthDiag(ch, 13)>>
    ELSE IF f.bitDepth \notin ValidBitDepths THEN <<BitDepthDiag(ch, f)>>
    ELSE IF f.compressionMethod # 0 THEN <<CompressionDiag(ch, f)>>
    ELSE IF f.filterMethod # 0 THEN <<FilterDiag(ch, f)>>
    ELSE IF f.interlaceMethod \notin ValidInterlaceMethods THEN <<InterlaceDiag(ch, f)>>
    ELSE <<>>

C10_StrictFirstViolation ==
    (HeaderCall /\ strictMode /\ FirstViolation(chunk, fields) # <<>>)
    => /\ Failed
       /\ <<outcome.error>> = FirstViolation(chunk, fields)
       /\ warnings = warningsBefore
       /\ warnings = <<>>

C10_Witness ==
    /\ HeaderCall
    /\ strictMode
    /\ chunk.dataLength = 13
    /\ fields.bitDepth = 16
    /\ fields.compressionMethod = 0
    /\ fields.filterMethod = 1
    /\ fields.interlaceMethod = 2
    /\ Failed
    /\ outcome.error = FilterDiag(chunk, fields)

=============================================================================
